---- MODULE Spec2Model ----
(***************************************************************************)
(* State-machine model of ItchClaim (src/ItchClaim/__main__.py): the       *)
(* rate-limited fetcher (_send_web), the reward claim machine              *)
(* (_claim_reward) with its callers (scrape_rewards via _scrape_profile,   *)
(* claim_rewards, claim_url), the direct claim (_claim_game) and the       *)
(* sale crawler (scrape_sales), the price test of the reward tiers and     *)
(* the report aggregator (make_report).                                    *)
(*                                                                         *)
(* Each component has its own specification (SpecFetch, SpecRewards,       *)
(* SpecScrape, SpecGame, SpecSales, SpecPrice, SpecReport, SpecSaleAdd);   *)
(* the variables of the other components stay at their idle values.        *)
(***************************************************************************)
EXTENDS Integers, Sequences, FiniteSets, TLC

VARIABLES
    \* ---- _send_web (one call)
    f_pc,        \* "idle" | "loop" | "returned" | "raised"
    f_r,         \* the local r: [bound, code]; unbound until a request returns
    f_attempts,  \* requests issued by this call
    f_seen,      \* what each attempt met: a status or a transport exception
    f_log,       \* the sleeps and requests of this call, in order
    \* ---- _claim_free / _claim_game (direct claim)
    g_pc,        \* "idle" | "feed" | "download_url" | "download_page" | "claim_post"
    g_todo,      \* games of the free-games feed not yet looked at
    g_game,      \* the game _claim_game is working on (0: none)
    g_depth,     \* nested _claim_game calls below the top-level one
    g_dl_posts,  \* download_url requests sent for g_game by the top-level call
    g_post,      \* the response to the claim-form POST: [got, root, marker]
    g_report,    \* what the call printed for g_game
    g_miss,      \* lines appended to itch-miss.txt
    g_run,       \* passes of _claim_free started so far
    g_granted,   \* games whose claim POST the platform accepted
    \* ---- the session, shared by the entry points
    owned_games, \* self.user.owned_games, as the set of their games
    owned_items, \* self.owned_items, filled by _login
    \* ---- scrape_sales
    s_pc,        \* "idle" | "loop" | "done"
    s_run,       \* runs of scrape_sales started so far
    s_start,     \* the scrape_page argument: the segment's first sale id
    scrape_limit,
    scrape_step,
    scrape_page, \* the cursor
    page_count,
    sales_list,  \* resolved sale URLs of the segment
    s_cache,     \* sales-url.txt of the segment, as the last run left it
    s_known,     \* self.active_sales and self.future_sales together
    s_cursors,   \* cursor values the loop of this run has processed
    s_fetched,   \* sale ids this run sent a request for
    miss_log,
    future_log,
    sales_log,
    itch_miss_txt,   \* itch-miss.txt, itch-future.txt and itch-sales.txt
    itch_future_txt, \* of the working directory, as lists of lines
    itch_sales_txt,
    s_files0,    \* the three files as they were when this run started
    \* ---- scrape_rewards, claim_rewards, claim_url and _claim_reward
    entry,       \* the command that runs: "none" before one is started
    r_pc,        \* where the command is
    r_phase,     \* scrape_rewards: which of its five loops runs (0: none)
    r_todo,      \* what the running for loop has still to visit
    r_item,      \* the loop's current entry, while calls for it remain
    r_page,      \* the page number of the collection feed
    r_ccells,    \* creators of the collection page not yet handled
    r_cells,     \* game cells of the profile page not yet handled
    ignore_list,
    active_list,
    active_checked,
    profile_list,
    profile_checked,
    profile_checked_alt,
    valid_reward,
    scrape_count,
    ignore_txt,  \* ignore.txt, as the set of its lines
    active_txt,  \* active.txt, as the set of its lines
    profiles_txt,
    collections_txt,
    r_detail,    \* whether r_call keeps the data and requests of the call
    r_missing,   \* the list files that are not in the working directory
    r_owned0,    \* the URLs of user.owned_games when the command started
    r_files0,    \* active.txt, ignore.txt, profiles.txt when it started
    r_passed,    \* the games passed to _claim_reward by this command, in order
    r_call,      \* the _claim_reward call just made, until the next step
    r_refetched, \* pages that _scrape_profile requested more than once
    \* ---- the price test of _claim_reward, on its own
    t_price,     \* item['price'], as its characters
    t_class,     \* "none" | "free" | "not free" | "raises"
    \* ---- make_report: _create_report and _sale_add
    m_pc,        \* "idle" | "lines" | "done" | "failed" | "adding"
    m_report,    \* "future" | "miss" | "sales": the list being built
    m_file,      \* the log file, as its lines
    m_lines,     \* lines of the file not yet read
    m_sale_url,  \* sale_url: the last sale marker read (0: None)
    m_item,      \* item: the group being filled
    m_list,      \* list: the output list of the report
    m_n,         \* groups handed to _sale_add so far
    m_clean      \* every member so far passed validation, no request raised

fvars == <<f_pc, f_r, f_attempts, f_seen, f_log>>
gvars == <<g_pc, g_todo, g_game, g_depth, g_dl_posts, g_post, g_report,
           g_miss, g_run, g_granted>>
uvars == <<owned_games, owned_items>>
svars == <<s_pc, s_run, s_start, scrape_limit, scrape_step, scrape_page,
           page_count, sales_list, s_cache, s_known, s_cursors, s_fetched,
           miss_log, future_log, sales_log,
           itch_miss_txt, itch_future_txt, itch_sales_txt, s_files0>>

rvars == <<entry, r_pc, r_phase, r_todo, r_item, r_page, r_ccells, r_cells,
           ignore_list, active_list, active_checked, profile_list,
           profile_checked, profile_checked_alt, valid_reward, scrape_count,
           ignore_txt, active_txt, profiles_txt, collections_txt, r_detail,
           r_missing,
           r_owned0, r_files0, r_passed, r_call, r_refetched>>

\* What only scrape_rewards touches.
pvars == <<r_phase, r_item, r_page, r_ccells, r_cells, profile_list,
           profile_checked, profile_checked_alt, profiles_txt,
           collections_txt, r_refetched>>

tvars == <<t_price, t_class>>

mvars == <<m_pc, m_report, m_file, m_lines, m_sale_url, m_item, m_list, m_n,
           m_clean>>

vars == <<fvars, gvars, uvars, svars, rvars, tvars, mvars>>

\* A step of one component leaves the others alone.
FetchOnly == UNCHANGED <<gvars, uvars, svars, rvars, tvars, mvars>>
GameOnly == UNCHANGED <<fvars, svars, rvars, tvars, mvars, owned_items>>
SalesOnly == UNCHANGED <<fvars, gvars, rvars, tvars, mvars>>
RewardsOnly == UNCHANGED <<fvars, gvars, svars, tvars, mvars>>
PriceOnly == UNCHANGED <<fvars, gvars, uvars, svars, rvars, mvars>>
ReportOnly == UNCHANGED <<fvars, gvars, uvars, svars, rvars, tvars>>

(***************************************************************************)
(* Bounds of the model.                                                    *)
(***************************************************************************)
\* attempts of one _send_web call that the model follows
MaxAttempts == 3
\* games (one URL each) the platform holds
MaxGames == 2
\* characters of a price string
MaxPriceLen == 5
\* sales named in a log file
MaxSales == 2
\* distinct start dates of sales
MaxDate == 2
\* lines of a log file
MaxLines == 4
\* groups handed to _sale_add
MaxGroups == 4
\* nested _claim_game calls that the model follows
MaxDepth == 2
\* largest sale id limit (the remote resume index) and segment size
MaxCursor == 3
\* runs of scrape_sales over the same segment
MaxRuns == 2
\* game cells on one page
MaxCells == 1
\* reward tiers in one data.json
MaxTiers == 2
\* self.scrape_limit (1000 in the source), scaled to the model
ScrapeLimit == 2

Games == 1..MaxGames

(***************************************************************************)
(* 4.1 Fetcher: _send_web                                                  *)
(***************************************************************************)
\* sleep(25/1000) before every attempt
PreDelayMs == 25
\* sleep(50/1000) after a 429
RetryDelayMs == 50

\* The statuses a server is taken to answer with.
Statuses == {200, 301, 302, 403, 404, 429, 500, 503}

St(code) == [kind |-> "status", code |-> code]
TransportError == [kind |-> "exception", code |-> 0]
\* What one attempt may meet: a response, or requests.RequestException.
Outcomes == {St(c) : c \in Statuses} \cup {TransportError}

Sleep(ms) == [ev |-> "sleep", ms |-> ms]
Request == [ev |-> "request", ms |-> 0]

Unbound == [bound |-> FALSE, code |-> 0]

\* C4 mutant: a 429 is retried without the extra wait.
StatusAction_NoWait(code) ==
    IF code = 200 THEN "break"
    ELSE IF code = 301 THEN "break"
    ELSE IF code = 404 THEN "break"
    ELSE IF code = 429 THEN "loop"
    ELSE IF code >= 500 THEN "break"
    ELSE "loop"

\* C6 mutant: a 404 does not leave the loop.
StatusAction_No404(code) ==
    IF code = 200 THEN "break"
    ELSE IF code = 301 THEN "break"
    ELSE IF code = 429 THEN "wait"
    ELSE IF code >= 500 THEN "break"
    ELSE "loop"

\* C29 mutant: a 403 leaves the loop.
StatusAction_403Breaks(code) ==
    IF code = 200 THEN "break"
    ELSE IF code = 301 THEN "break"
    ELSE IF code = 403 THEN "break"
    ELSE IF code = 404 THEN "break"
    ELSE IF code = 429 THEN "wait"
    ELSE IF code >= 500 THEN "break"
    ELSE "loop"

\* The if-chain on r.status_code: "break" leaves the loop, "wait" sleeps
\* 50 ms and continues, "loop" falls off the end of the body and loops.
StatusAction(code) ==
    IF code = 200 THEN "break"
    ELSE IF code = 301 THEN "break"
    ELSE IF code = 404 THEN "break"
    ELSE IF code = 429 THEN "wait"
    ELSE IF code >= 500 THEN "break"
    ELSE "loop"

\* The try block: a response is bound to r; on RequestException the
\* handler only prints, and r keeps what it held (nothing on the first
\* attempt).
AfterRequest(r, o) ==
    IF o.kind = "status" THEN [bound |-> TRUE, code |-> o.code] ELSE r

FetchIdle ==
    /\ f_pc = "idle"
    /\ f_r = Unbound
    /\ f_attempts = 0
    /\ f_seen = <<>>
    /\ f_log = <<>>

\* _send_web is entered: timer = 25, count = 0, r not yet assigned.
SendWebCall ==
    /\ FetchOnly
    /\ f_pc = "idle"
    /\ f_pc' = "loop"
    /\ UNCHANGED <<f_r, f_attempts, f_seen, f_log>>

\* One iteration of the while True loop: the 25 ms sleep, the request,
\* and the status test. Reading r.status_code with r unassigned raises
\* UnboundLocalError, which leaves _send_web.
SendWebAttempt ==
    /\ FetchOnly
    /\ f_pc = "loop"
    /\ f_attempts < MaxAttempts
    /\ \E o \in Outcomes :
         LET r1 == AfterRequest(f_r, o)
             log1 == f_log \o <<Sleep(PreDelayMs), Request>>
         IN  /\ f_seen' = Append(f_seen, o)
             /\ f_attempts' = f_attempts + 1
             /\ f_r' = r1
             /\ IF ~r1.bound
                  THEN /\ f_pc' = "raised"
                       /\ f_log' = log1
                  ELSE IF StatusAction(r1.code) = "break"
                  THEN /\ f_pc' = "returned"
                       /\ f_log' = log1
                  ELSE IF StatusAction(r1.code) = "wait"
                  THEN /\ f_pc' = "loop"
                       /\ f_log' = Append(log1, Sleep(RetryDelayMs))
                  ELSE /\ f_pc' = "loop"
                       /\ f_log' = log1

FetchNext ==
    \/ SendWebCall
    \/ SendWebAttempt

(***************************************************************************)
(* 4.5 Direct claim: _claim_free and _claim_game                           *)
(***************************************************************************)
NoPost == [got |-> FALSE, root |-> FALSE, marker |-> FALSE]

GameIdle ==
    /\ g_pc = "idle"
    /\ g_todo = {}
    /\ g_game = 0
    /\ g_depth = 0
    /\ g_dl_posts = 0
    /\ g_post = NoPost
    /\ g_report = "none"
    /\ g_miss = <<>>
    /\ g_run = 0
    /\ g_granted = {}

\* self.user.owns_game(game): the game is one of user.owned_games.
OwnsGame(owned, game) == game \in owned

\* The except clause of _claim_game: "ERROR: Failed to claim ..." with
\* the exception's text; the call ends.
ClaimGameFails(why) ==
    /\ g_report' = why
    /\ g_pc' = "feed"

\* _claim_free: the feed is downloaded.
ClaimFreeStart ==
    /\ GameOnly
    /\ g_pc = "idle"
    /\ g_run < MaxRuns
    /\ g_run' = g_run + 1
    /\ \E feed \in SUBSET Games :
         /\ g_todo' = feed
         /\ g_pc' = "feed"
    /\ UNCHANGED <<g_game, g_depth, g_dl_posts, g_post, g_report,
                   owned_games, g_miss, g_granted>>

\* for game in games: the inner loop over owned urls changes nothing;
\* a game the user does not own goes to _claim_game.
ClaimFreeNext ==
    /\ GameOnly
    /\ g_pc = "feed"
    /\ \E game \in g_todo :
         /\ g_todo' = g_todo \ {game}
         /\ g_game' = game
         /\ g_depth' = 0
         /\ g_dl_posts' = 0
         /\ g_post' = NoPost
         /\ g_report' = "none"
         /\ IF OwnsGame(owned_games, game)
              THEN g_pc' = "feed"
              ELSE g_pc' = "download_url"
    /\ UNCHANGED <<owned_games, g_miss, g_run, g_granted>>

\* The loop of _claim_free has ended: the pass returns.
ClaimFreeEnd ==
    /\ GameOnly
    /\ g_pc = "feed"
    /\ g_todo = {}
    /\ g_pc' = "idle"
    /\ UNCHANGED <<g_todo, g_game, g_depth, g_dl_posts, g_post, g_report,
                   owned_games, g_miss, g_run, g_granted>>

\* POST game.url/download_url and the test of its answer.
ClaimGameDownloadUrl ==
    /\ GameOnly
    /\ g_pc = "download_url"
    /\ g_dl_posts' = g_dl_posts + 1
    /\ \E answer \in {"raises", "invalid game", "invalid user",
                       "other error", "url"} :
         \/ /\ answer = "raises"
            /\ ClaimGameFails("error: exception")
            /\ UNCHANGED g_depth
         \/ /\ answer \in {"invalid game", "invalid user"}
            /\ \E redirected \in BOOLEAN :
                 IF redirected
                   THEN \* game.check_redirect_url() holds:
                        \* self._claim_game(game); return
                        /\ g_depth < MaxDepth
                        /\ g_depth' = g_depth + 1
                        /\ g_pc' = "download_url"
                        /\ UNCHANGED g_report
                   ELSE /\ ClaimGameFails("error: " \o answer)
                        /\ UNCHANGED g_depth
         \/ /\ answer = "other error"
            /\ ClaimGameFails("error: other error")
            /\ UNCHANGED g_depth
         \/ /\ answer = "url"
            /\ g_pc' = "download_page"
            /\ UNCHANGED <<g_depth, g_report>>
    /\ UNCHANGED <<g_todo, g_game, g_post, owned_games, g_miss, g_run,
                   g_granted>>

\* GET download_url and the search for the claim box.
ClaimGameDownloadPage ==
    /\ GameOnly
    /\ g_pc = "download_page"
    /\ \E page \in {"raises", "not 200", "nothing available", "no claim box",
                     "no form action", "claim box"} :
         \/ /\ page = "raises"
            /\ ClaimGameFails("error: exception")
            /\ UNCHANGED g_miss
         \/ /\ page = "not 200"
            /\ ClaimGameFails("error: status")
            /\ UNCHANGED g_miss
         \/ /\ page = "nothing available"
            /\ ClaimGameFails("error: Nothing is available for download yet.")
            /\ UNCHANGED g_miss
         \/ /\ page = "no claim box"
            /\ g_miss' = Append(g_miss, g_game)
            /\ g_report' = "miss"
            /\ g_pc' = "feed"
         \/ /\ page = "no form action"
            /\ ClaimGameFails("error: exception")
            /\ UNCHANGED g_miss
         \/ /\ page = "claim box"
            /\ g_pc' = "claim_post"
            /\ UNCHANGED <<g_report, g_miss>>
    /\ UNCHANGED <<g_todo, g_game, g_depth, g_dl_posts, g_post, owned_games,
                   g_run, g_granted>>

\* POST claim_url and the test of r.url. On a URL other than the root
\* the else branch runs self.owned_games.append(game): self is the
\* ItchClaim object, which has no attribute owned_games (the library is
\* self.user.owned_games), so AttributeError is raised before the
\* "Successfully claimed" print and lands in the except clause.
ClaimGamePost ==
    /\ GameOnly
    /\ g_pc = "claim_post"
    /\ \E answer \in {"raises", "response"}, root \in BOOLEAN,
          marker \in BOOLEAN :
         IF answer = "raises"
           THEN /\ ~root /\ ~marker
                /\ g_post' = NoPost
                /\ ClaimGameFails("error: exception")
                /\ UNCHANGED g_granted
           ELSE /\ g_post' = [got |-> TRUE, root |-> root, marker |-> marker]
                /\ g_granted' = IF root THEN g_granted
                                ELSE g_granted \cup {g_game}
                /\ IF root
                     THEN IF marker
                            THEN ClaimGameFails(
                                   "error: promotion is no longer active")
                            ELSE ClaimGameFails("error: response body")
                     ELSE ClaimGameFails("error: AttributeError owned_games")
    /\ UNCHANGED <<g_todo, g_game, g_depth, g_dl_posts, owned_games, g_miss,
                   g_run>>

GameNext ==
    \/ ClaimFreeStart
    \/ ClaimFreeNext
    \/ ClaimFreeEnd
    \/ ClaimGameDownloadUrl
    \/ ClaimGameDownloadPage
    \/ ClaimGamePost

(***************************************************************************)
(* 4.2 Sale crawler: scrape_sales                                          *)
(***************************************************************************)
\* The URL recorded for sale id i: the Location of /s/{i}, or /s/{i}
\* itself when the answer has no Location header; one URL per sale.
SaleUrl(i) == i

LogSale(url) == [kind |-> "sale", n |-> url]
LogGame(url) == [kind |-> "game", n |-> url]

\* Sequences over S of length at most n.
SeqUpTo(S, n) == UNION {[1..k -> S] : k \in 0..n}

\* (self._substr(r.text, idx, 'href="', '"'))[0] of a game cell that
\* has no href=" or no closing quote after it: None.
NoUrl == 0

\* What the fetch of a sale page may give: an exception, or a page that
\* has the "This sale ended" text, lacks the "100%</strong> off" text, or
\* is a 100% sale, running or not yet ("Come back"), with its game cells.
SalePages ==
    {[kind |-> k, members |-> <<>>] : k \in {"raises", "ended", "not100"}}
    \cup {[kind |-> k, members |-> m] :
            k \in {"active", "future"},
            m \in SeqUpTo(Games \cup {NoUrl}, MaxCells)}

\* ItchGame.from_api(url) and self.user.claim_game(game): the game is
\* added to user.owned_games when the claim goes through.
UserClaimGame(owned, url, out) ==
    IF out = "claimed" THEN owned \cup {url} ELSE owned

\* The loop over the game cells of one sale page. st carries the three
\* logs, the debug_sale and debug_miss flags, user.owned_games, whether
\* an exception ended the loop, and whether the except clause raised in
\* its turn: a url that is None makes every branch raise a TypeError
\* ('Missing sale ' + url, 'Must claim later ' + url, or from_api), and
\* 'Failure while checking ' + url raises it again outside the try.
RECURSIVE SaleMembers(_, _, _, _, _)
SaleMembers(members, outs, sale_url, future_sale, st) ==
    IF members = <<>> \/ st.raised THEN st
    ELSE IF Head(members) = NoUrl
      THEN [st EXCEPT !.raised = TRUE, !.aborted = TRUE]
    ELSE
      LET url == Head(members)
          out == Head(outs)
          st1 == IF url \notin s_known
                   THEN [st EXCEPT
                           !.sales_log =
                               (IF st.debug_sale = 0
                                  THEN Append(@, LogSale(sale_url))
                                  ELSE @) \o <<LogGame(url)>>,
                           !.debug_sale = 1]
                   ELSE st
          st2 == IF url \in owned_items THEN st1
                 ELSE IF future_sale
                   THEN [st1 EXCEPT
                           !.future_log =
                               (IF st1.debug_miss = 0
                                  THEN Append(@, LogSale(sale_url))
                                  ELSE @) \o <<LogGame(url)>>,
                           !.debug_miss = 1]
                 ELSE IF out = "raises"
                   THEN [st1 EXCEPT !.raised = TRUE]
                 ELSE
                   LET st3 == [st1 EXCEPT
                                 !.owned = UserClaimGame(@, url, out)]
                   IN  IF url \notin owned_items
                         THEN [st3 EXCEPT
                                 !.miss_log =
                                     (IF st3.debug_miss = 0
                                        THEN Append(@, LogSale(sale_url))
                                        ELSE @) \o <<LogGame(url)>>,
                                 !.debug_miss = 1]
                         ELSE st3
      IN  SaleMembers(Tail(members), Tail(outs), sale_url, future_sale, st2)

\* C3 mutant: the loop also runs for the id equal to the limit.
LoopContinues_UpToLimit(count, page, step, limit) ==
    count < step /\ page <= limit

\* while page_count < scrape_step and scrape_page < scrape_limit
LoopContinues(count, page, step, limit) ==
    count < step /\ page < limit

\* C18 mutant: the file is opened for appending.
DumpLog_Append(file, mylist) == file \o mylist

\* _dump_log(filename, mylist): nothing is done for an empty list;
\* otherwise the file is opened with 'w' and gets the list's lines.
DumpLog(file, mylist) == IF mylist = <<>> THEN file ELSE mylist

\* The three log files of a working directory no run has written to.
LogFiles0 == [miss |-> <<>>, future |-> <<>>, sales |-> <<>>]

SalesIdle ==
    /\ s_pc = "idle"
    /\ s_run = 0
    /\ s_start = 0
    /\ scrape_limit = 0
    /\ scrape_step = 0
    /\ scrape_page = 0
    /\ page_count = 0
    /\ sales_list = <<>>
    /\ s_cache = <<>>
    /\ s_known = {}
    /\ s_cursors = <<>>
    /\ s_fetched = {}
    /\ miss_log = <<>>
    /\ future_log = <<>>
    /\ sales_log = <<>>
    /\ itch_miss_txt = <<>>
    /\ itch_future_txt = <<>>
    /\ itch_sales_txt = <<>>
    /\ s_files0 = LogFiles0

\* scrape_sales up to the loop: _login, the limit and the step, the
\* empty logs, sales-url.txt of the segment's branch (kept when the
\* answer is a 200), and the start at 1 when the cursor is 0.
SalesStart ==
    /\ SalesOnly
    /\ s_pc \in {"idle", "done"}
    /\ s_run < MaxRuns
    /\ s_run' = s_run + 1
    /\ owned_items' = owned_games
    /\ \E limit \in 0..MaxCursor, step \in 1..MaxCursor, got \in BOOLEAN :
         /\ scrape_limit' = limit
         /\ scrape_step' = step
         /\ sales_list' = IF got THEN s_cache ELSE <<>>
    /\ IF s_start = 0
         THEN page_count' = 1 /\ scrape_page' = 1
         ELSE page_count' = 0 /\ scrape_page' = s_start
    /\ miss_log' = <<>>
    /\ future_log' = <<>>
    /\ sales_log' = <<>>
    /\ s_cursors' = <<>>
    /\ s_fetched' = {}
    /\ s_pc' = "loop"
    /\ s_files0' = [miss |-> itch_miss_txt, future |-> itch_future_txt,
                    sales |-> itch_sales_txt]
    /\ UNCHANGED <<s_start, s_cache, s_known, owned_games,
                   itch_miss_txt, itch_future_txt, itch_sales_txt>>

\* One pass of the while loop. The body is one try block: an exception
\* of the /s/{id} request leaves page_count and scrape_page as they
\* were; a later one leaves them advanced.
SalesIter ==
    /\ SalesOnly
    /\ s_pc = "loop"
    /\ LoopContinues(page_count, scrape_page, scrape_step, scrape_limit)
    /\ LET cached == page_count < Len(sales_list) IN
       \E resolved \in BOOLEAN, page \in SalePages,
          outs \in [1..MaxCells -> {"claimed", "not claimed", "raises"}] :
         /\ cached => resolved
         /\ (~cached /\ ~resolved) =>
               (page.kind = "raises" /\ outs = [i \in 1..MaxCells |-> "raises"])
         /\ IF ~cached /\ ~resolved
              THEN /\ s_fetched' = s_fetched \cup {scrape_page}
                   /\ UNCHANGED <<page_count, scrape_page, sales_list,
                                  s_cursors, miss_log, future_log, sales_log,
                                  owned_games, s_pc>>
              ELSE
                LET url == IF cached THEN sales_list[page_count + 1]
                           ELSE SaleUrl(scrape_page)
                    st0 == [sales_log |-> sales_log,
                            future_log |-> future_log,
                            miss_log |-> miss_log,
                            debug_sale |-> 0, debug_miss |-> 0,
                            owned |-> owned_games, raised |-> FALSE,
                            aborted |-> FALSE]
                    st == IF page.kind \in {"active", "future"}
                            THEN SaleMembers(page.members,
                                     SubSeq(outs, 1, Len(page.members)),
                                     url, page.kind = "future", st0)
                            ELSE st0
                IN  /\ sales_list' = IF cached THEN sales_list
                                     ELSE Append(sales_list, url)
                    /\ page_count' = page_count + 1
                    /\ scrape_page' = scrape_page + 1
                    /\ s_cursors' = Append(s_cursors, scrape_page)
                    /\ s_fetched' = s_fetched \cup {url}
                                    \cup (IF cached THEN {} ELSE {scrape_page})
                    /\ sales_log' = st.sales_log
                    /\ future_log' = st.future_log
                    /\ miss_log' = st.miss_log
                    /\ owned_games' = st.owned
                    /\ s_pc' = IF st.aborted THEN "aborted" ELSE s_pc
    /\ UNCHANGED <<s_run, s_start, scrape_limit, scrape_step, s_cache,
                   s_known, owned_items,
                   itch_miss_txt, itch_future_txt, itch_sales_txt, s_files0>>

\* The loop has ended: the logs are dumped, and sales-url.txt (written
\* only when sales_list is not empty) becomes the segment's cache.
SalesFinish ==
    /\ SalesOnly
    /\ s_pc = "loop"
    /\ ~LoopContinues(page_count, scrape_page, scrape_step, scrape_limit)
    /\ itch_miss_txt' = DumpLog(itch_miss_txt, miss_log)
    /\ itch_future_txt' = DumpLog(itch_future_txt, future_log)
    /\ itch_sales_txt' = DumpLog(itch_sales_txt, sales_log)
    /\ s_cache' = DumpLog(s_cache, sales_list)
    /\ s_pc' = "done"
    /\ UNCHANGED <<s_run, s_start, scrape_limit, scrape_step, scrape_page,
                   page_count, sales_list, s_known, s_cursors, s_fetched,
                   miss_log, future_log, sales_log, s_files0, uvars>>

SalesNext ==
    \/ SalesStart
    \/ SalesIter
    \/ SalesFinish

(***************************************************************************)
(* 4.4 Reward claim machine: _claim_reward                                 *)
(***************************************************************************)
\* https://itch.io/
Root == "root"

Digits == {"0", "1", "2", "3", "4", "5", "6", "7", "8", "9"}

\* Price strings of reward tiers, as their characters.
PriceDollarFree == <<"$", "0", ".", "0", "0">>
PriceFive == <<"5", ".", "0", "0">>
PriceNoDigit == <<"-">>
RewardPrices == {PriceDollarFree, PriceFive, PriceNoDigit}

\* C12 mutant: the non-digit prefix is not skipped.
FirstDigit_NoSkip(price, idx) == IF idx > Len(price) THEN 0 ELSE idx

\* idx = 0; while item['price'][idx].isdigit() == False: idx += 1
\* The index (from 1) of the first digit; 0 when the scan runs off the
\* end of the string, where Python raises IndexError.
RECURSIVE FirstDigit(_, _)
FirstDigit(price, idx) ==
    IF idx > Len(price) THEN 0
    ELSE IF price[idx] \in Digits THEN idx
    ELSE FirstDigit(price, idx + 1)

\* C11 mutant: every price with a digit in it counts as free.
IsFreeTier_AnyPrice(price) == TRUE

\* item['price'][idx:] != '0.00' is false
IsFreeTier(price) ==
    SubSeq(price, FirstDigit(price, 1), Len(price)) = <<"0", ".", "0", "0">>

\* Characters of price strings: currency signs, digits, the point.
PriceChars == {"$", "EUR", "0", "5", "9", "."}

RECURSIVE StringsUpTo(_, _)
StringsUpTo(chars, n) ==
    IF n = 0 THEN {<<>>}
    ELSE LET shorter == StringsUpTo(chars, n - 1) IN
         shorter \cup {Append(s, c) : s \in shorter, c \in chars}

PriceStrings == StringsUpTo(PriceChars, MaxPriceLen)

\* The idx loop and the price test of _claim_reward on one price:
\* IndexError when the string has no digit, else free or not.
PriceClass(price) ==
    IF FirstDigit(price, 1) = 0 THEN "raises"
    ELSE IF IsFreeTier(price) THEN "free"
    ELSE "not free"

PriceIdle ==
    /\ t_price = <<>>
    /\ t_class = "none"

\* The price test runs on the price of a tier.
PriceTest ==
    /\ PriceOnly
    /\ t_class = "none"
    /\ t_class' = PriceClass(t_price)
    /\ UNCHANGED t_price

PriceNext ==
    \/ PriceTest

\* The tiers of data.json.
Tiers == [price : RewardPrices, available : BOOLEAN]

\* What the first request of _claim_reward gives: an exception
\* (_send_web or json.loads), a document without 'rewards', or the
\* rewards.
RewardData ==
    {[kind |-> k, tiers |-> <<>>] : k \in {"raises", "no rewards"}}
    \cup {[kind |-> "rewards", tiers |-> t] : t \in SeqUpTo(Tiers, MaxTiers)}

\* How the platform answers a claim of a tier: the download_url request
\* fails (no 'url', or an exception), the download page has no claim
\* box, the claim POST raises, ends on the root, or ends elsewhere.
ClaimAnswers == {"no url", "no claim box", "post raises", "root", "other"}

\* C7 mutant: the test of r.url is dropped.
ClaimPostFails_Never(final_url) == FALSE

\* if r.url == 'https://itch.io/': raise Exception(r.text)
ClaimPostFails(final_url) == final_url = Root

\* C10 mutant: valid_reward is set after the availability test.
ValidAfterTier_Available(valid, item) ==
    valid \/ (IsFreeTier(item.price) /\ item.available = TRUE)

\* self.valid_reward = True, reached for a tier whose price is 0.00
ValidAfterTier(valid, item) == valid \/ IsFreeTier(item.price)

DownloadUrlPost(i) == [req |-> "download_url", tier |-> i]
DownloadPageGet(i) == [req |-> "download_page", tier |-> i]
ClaimPost(i) == [req |-> "claim", tier |-> i]

\* C28 mutant: the tier scan goes on after a claim that succeeded.
RECURSIVE RewardScan_NoBreak(_, _, _, _)
RewardScan_NoBreak(tiers, i, answer, acc) ==
    IF i > Len(tiers) THEN acc
    ELSE
      LET item == tiers[i] IN
      IF FirstDigit(item.price, 1) = 0
        THEN [acc EXCEPT !.raised = TRUE]
      ELSE IF ~IsFreeTier(item.price)
        THEN RewardScan_NoBreak(tiers, i + 1, answer, acc)
      ELSE
        LET acc1 == [acc EXCEPT !.valid = ValidAfterTier(@, item)] IN
        IF item.available # TRUE
          THEN RewardScan_NoBreak(tiers, i + 1, answer, acc1)
        ELSE
          LET r1 == Append(acc1.reqs, DownloadUrlPost(i))
              r2 == Append(r1, DownloadPageGet(i))
              r3 == Append(r2, ClaimPost(i))
          IN  IF answer = "no url"
                THEN [acc1 EXCEPT !.reqs = r1, !.raised = TRUE]
              ELSE IF answer = "no claim box"
                THEN [acc1 EXCEPT !.reqs = r2, !.raised = TRUE]
              ELSE IF answer = "post raises"
                THEN [acc1 EXCEPT !.reqs = r3, !.raised = TRUE]
              ELSE IF ClaimPostFails(answer)
                THEN [acc1 EXCEPT !.reqs = r3, !.raised = TRUE,
                                  !.final_url = answer]
              ELSE RewardScan_NoBreak(tiers, i + 1, answer,
                       [acc1 EXCEPT !.reqs = r3, !.claimed = TRUE,
                                    !.final_url = answer])

\* The for loop over dat['rewards'], from tier i on. acc holds
\* valid_reward, the requests sent, whether the game was appended to
\* user.owned_games, whether an exception ended the loop, and the final
\* URL of the claim POST.
RECURSIVE RewardScan(_, _, _, _)
RewardScan(tiers, i, answer, acc) ==
    IF i > Len(tiers) THEN acc
    ELSE
      LET item == tiers[i] IN
      IF FirstDigit(item.price, 1) = 0
        THEN [acc EXCEPT !.raised = TRUE]
      ELSE IF ~IsFreeTier(item.price)
        THEN RewardScan(tiers, i + 1, answer, acc)
      ELSE
        LET acc1 == [acc EXCEPT !.valid = ValidAfterTier(@, item)] IN
        IF item.available # TRUE
          THEN RewardScan(tiers, i + 1, answer, acc1)
        ELSE
          LET r1 == Append(acc1.reqs, DownloadUrlPost(i))
              r2 == Append(r1, DownloadPageGet(i))
              r3 == Append(r2, ClaimPost(i))
          IN  IF answer = "no url"
                THEN [acc1 EXCEPT !.reqs = r1, !.raised = TRUE]
              ELSE IF answer = "no claim box"
                THEN [acc1 EXCEPT !.reqs = r2, !.raised = TRUE]
              ELSE IF answer = "post raises"
                THEN [acc1 EXCEPT !.reqs = r3, !.raised = TRUE]
              ELSE IF ClaimPostFails(answer)
                THEN [acc1 EXCEPT !.reqs = r3, !.raised = TRUE,
                                  !.final_url = answer]
              ELSE [acc1 EXCEPT !.reqs = r3, !.claimed = TRUE,
                                !.final_url = answer]

NoResult ==
    [valid |-> FALSE, reqs |-> <<>>, claimed |-> FALSE, raised |-> FALSE,
     final_url |-> "none"]

\* The try block of _claim_reward.
RewardResult(dat, answer) ==
    IF dat.kind = "raises" THEN [NoResult EXCEPT !.raised = TRUE]
    ELSE IF dat.kind = "no rewards" THEN NoResult
    ELSE RewardScan(dat.tiers, 1, answer, NoResult)

NoCall == [game |-> 0]
NoData == [kind |-> "not kept", tiers |-> <<>>]

\* ignore_list, active_list and active_checked are attributes that
\* scrape_rewards and claim_rewards create; claim_url does not.
HasLists == entry \in {"scrape_rewards", "claim_rewards"}

\* C30 mutant: a call ended by an exception leaves the lists alone.
ListsAfter_ExceptReturns(game, dat, res) ==
    IF res.raised
      THEN [ignore |-> ignore_list, active |-> active_list,
            checked |-> active_checked]
    ELSE IF dat.kind = "no rewards" \/ ~res.valid
      THEN [ignore |-> ignore_list \cup {game}, active |-> active_list,
            checked |-> active_checked]
    ELSE [ignore |-> ignore_list, active |-> active_list \cup {game},
          checked |-> active_checked \cup {game}]

\* The lists when _claim_reward ends: without a rewards section the
\* game joins ignore_list and the call returns; else, after the try
\* block, it joins active_list and active_checked if valid_reward is
\* set and ignore_list if not.
ListsAfter(game, dat, res) ==
    IF dat.kind = "no rewards" \/ ~res.valid
      THEN [ignore |-> ignore_list \cup {game}, active |-> active_list,
            checked |-> active_checked]
    ELSE [ignore |-> ignore_list, active |-> active_list \cup {game},
          checked |-> active_checked \cup {game}]

\* A call _claim_reward(game) with user.owned_games = owned before it.
\* Without the list attributes the first list access raises
\* AttributeError, which ends the command.
ClaimReward(game, owned) ==
    \E dat \in RewardData, answer \in ClaimAnswers :
      LET res == RewardResult(dat, answer) IN
      /\ scrape_count' = scrape_count + 1
      /\ valid_reward' = res.valid
      /\ owned_games' = IF res.claimed THEN owned \cup {game} ELSE owned
      /\ r_passed' = Append(r_passed, game)
      /\ r_call' = [game |-> game,
                    dat |-> IF r_detail THEN dat ELSE NoData,
                    reqs |-> IF r_detail THEN res.reqs ELSE <<>>,
                    valid |-> res.valid, claimed |-> res.claimed,
                    raised |-> res.raised, final_url |-> res.final_url,
                    returned |-> HasLists]
      /\ IF ~HasLists
           THEN UNCHANGED <<ignore_list, active_list, active_checked>>
         ELSE LET lists == ListsAfter(game, dat, res) IN
                /\ ignore_list' = lists.ignore
                /\ active_list' = lists.active
                /\ active_checked' = lists.checked

NoItem == [kind |-> "none", id |-> 0]

\* No snapshot of the list files: no command has started.
NoFiles == [active |-> {}, ignore |-> {}, profiles |-> {}]

\* Nothing runs; the files are left to the initial condition.
RewardsStopped ==
    /\ entry = "none"
    /\ r_pc = "idle"
    /\ r_phase = 0
    /\ r_todo = {}
    /\ r_item = NoItem
    /\ r_page = 0
    /\ r_ccells = <<>>
    /\ r_cells = <<>>
    /\ ignore_list = {}
    /\ active_list = {}
    /\ active_checked = {}
    /\ profile_list = {}
    /\ profile_checked = {}
    /\ profile_checked_alt = {}
    /\ valid_reward = FALSE
    /\ scrape_count = 0
    /\ r_owned0 = {}
    /\ r_files0 = NoFiles
    /\ r_passed = <<>>
    /\ r_call = NoCall
    /\ r_refetched = {}

\* The list files scrape_rewards opens for reading.
ListFiles == {"ignore.txt", "active.txt", "profiles.txt", "collections.txt"}

\* C22 mutant: every file can be opened.
OpenFails_Never(file) == FALSE

\* open(file, 'r') of a file that is not there raises FileNotFoundError;
\* each of these calls is outside every try block.
OpenFails(file) == file \in r_missing

RewardsIdle ==
    /\ RewardsStopped
    /\ ignore_txt = {}
    /\ active_txt = {}
    /\ profiles_txt = {}
    /\ collections_txt = {}
    /\ r_detail = FALSE
    /\ r_missing = {}

\* claim_url(url): scrape_count = 0, ItchGame.from_api, user.claim_game
\* and _claim_reward, whose list access ends the command.
ClaimUrl ==
    /\ RewardsOnly
    /\ entry = "none"
    /\ entry' = "claim_url"
    /\ r_owned0' = owned_games
    /\ UNCHANGED r_files0
    /\ \E game \in Games, out \in {"claimed", "not claimed"} :
         ClaimReward(game, UserClaimGame(owned_games, game, out))
    /\ r_pc' = "aborted"
    /\ UNCHANGED <<r_todo, ignore_txt, active_txt, r_detail, r_missing, owned_items,
                   pvars>>

\* claim_rewards up to its loop: _login, scrape_count = 0, the three
\* empty sets, and active.txt opened.
ClaimRewardsStart ==
    /\ RewardsOnly
    /\ entry = "none"
    /\ entry' = "claim_rewards"
    /\ r_owned0' = owned_games
    /\ UNCHANGED r_files0
    /\ owned_items' = owned_games
    /\ scrape_count' = 0
    /\ active_list' = {}
    /\ active_checked' = {}
    /\ ignore_list' = {}
    /\ r_todo' = active_txt
    /\ r_pc' = IF OpenFails("active.txt") THEN "aborted" ELSE "lines"
    /\ r_call' = NoCall
    /\ UNCHANGED <<valid_reward, ignore_txt, active_txt, r_detail, r_missing, r_passed,
                   owned_games, pvars>>

\* One line of active.txt in claim_rewards.
ClaimRewardsLine ==
    /\ RewardsOnly
    /\ entry = "claim_rewards"
    /\ r_pc = "lines"
    /\ \E game_url \in r_todo :
         /\ r_todo' = r_todo \ {game_url}
         /\ IF game_url \in owned_items
              THEN /\ r_call' = NoCall
                   /\ UNCHANGED <<scrape_count, valid_reward, owned_games,
                                  r_passed, ignore_list, active_list,
                                  active_checked>>
              ELSE ClaimReward(game_url, owned_games)
    /\ UNCHANGED <<entry, r_pc, ignore_txt, active_txt, r_detail, r_missing, r_owned0, r_files0,
                   owned_items, pvars>>

\* The loop of claim_rewards has ended.
ClaimRewardsEnd ==
    /\ RewardsOnly
    /\ entry = "claim_rewards"
    /\ r_pc = "lines"
    /\ r_todo = {}
    /\ r_pc' = "done"
    /\ r_call' = NoCall
    /\ UNCHANGED <<entry, r_todo, ignore_list, active_list, active_checked,
                   valid_reward, scrape_count, ignore_txt, active_txt,
                   r_detail, r_missing, r_owned0, r_files0, r_passed, uvars, pvars>>

RewardsNext ==
    \/ ClaimUrl
    \/ ClaimRewardsStart
    \/ ClaimRewardsLine
    \/ ClaimRewardsEnd

(***************************************************************************)
(* 4.3 Profile and collection crawler: _scrape_profile, scrape_rewards     *)
(***************************************************************************)
\* URLs: https://{author}.itch.io/{game}, https://{author}.itch.io,
\* https://itch.io/profile/{author}, and a collection feed.
GameU(g) == [kind |-> "game", id |-> g]
ProfileU(a) == [kind |-> "profile", id |-> a]
AltU(a) == [kind |-> "alt", id |-> a]
CollectionU(c) == [kind |-> "collection", id |-> c]

\* The creator of a game: the games are spread over two creators.
GameAuthor(g) == g % 2
Authors == {GameAuthor(g) : g \in Games}

\* (self._substr(url, 0, 'https://', '.itch.io'))[0] of a game or
\* profile URL
AuthorOf(url) == IF url.kind = "game" THEN GameAuthor(url.id) ELSE url.id

\* A fetched profile page: an exception of the fetch, or its game cells.
ProfilePages ==
    {[raises |-> TRUE, cells |-> <<>>]}
    \cup {[raises |-> FALSE, cells |-> c] : c \in SeqUpTo(Games, MaxCells)}

\* C1 mutant: a game of the ignore list is evaluated again.
SkipCandidate_NoIgnore(game) ==
    \/ game \in owned_items
    \/ game \in active_list

\* C2 mutant: an owned game is evaluated.
SkipCandidate_NoOwned(game) ==
    \/ game \in active_list
    \/ game \in ignore_list

\* The three tests before self._claim_reward(game) in _scrape_profile.
SkipCandidate(game) ==
    \/ game \in owned_items
    \/ game \in active_list
    \/ game \in ignore_list

\* C1 mutant: active.txt is loaded without the test on ignore_list.
LoadActive_NoIgnore(lines, owned, ignore) ==
    {game_url \in lines : game_url \notin owned}

\* The loop over active.txt in scrape_rewards.
LoadActive(lines, owned, ignore) ==
    {game_url \in lines : game_url \notin owned /\ game_url \notin ignore}

\* C25 mutant: the ceiling is tested with > in place of >=.
CeilingReached_Late(count) == count > ScrapeLimit

\* if self.scrape_count >= self.scrape_limit: the test at the entry of
\* _scrape_profile and at every turn of its loop over the game cells.
CeilingReached(count) == count >= ScrapeLimit

\* The page _scrape_profile(url, alt) requests: the profile page
\* https://itch.io/profile/{author} for alt = True, url itself if not.
FetchedUrl(url, alt) == IF alt THEN AltU(AuthorOf(url)) ELSE url

\* _scrape_profile(url, alt) up to its loop: the url joins profile_list;
\* at the request ceiling the call returns; else the form is marked
\* checked and the page is fetched (an exception ends the call).
EnterProfile(url, alt) ==
    /\ profile_list' = profile_list \cup {url}
    /\ IF CeilingReached(scrape_count)
         THEN /\ r_pc' = "phase"
              /\ r_cells' = <<>>
              /\ UNCHANGED <<profile_checked, profile_checked_alt,
                             r_refetched>>
         ELSE /\ IF alt
                   THEN /\ profile_checked_alt' =
                               profile_checked_alt \cup {AltU(AuthorOf(url))}
                        /\ UNCHANGED profile_checked
                   ELSE /\ profile_checked' = profile_checked \cup {url}
                        /\ UNCHANGED profile_checked_alt
              /\ r_refetched' =
                   IF FetchedUrl(url, alt)
                        \in profile_checked \cup profile_checked_alt
                     THEN r_refetched \cup {FetchedUrl(url, alt)}
                     ELSE r_refetched
              /\ \E page \in ProfilePages :
                   /\ r_cells' = page.cells
                   /\ r_pc' = IF page.raises THEN "phase" ELSE "cells"

\* The test before the call was false: no call.
NoProfile ==
    /\ r_pc' = "phase"
    /\ r_cells' = <<>>
    /\ UNCHANGED <<profile_list, profile_checked, profile_checked_alt,
                   r_refetched>>

\* No _claim_reward call in this step.
NoReward ==
    /\ r_call' = NoCall
    /\ UNCHANGED <<ignore_list, active_list, active_checked, valid_reward,
                   scrape_count, r_passed, owned_games>>

\* scrape_rewards up to its first loop: _login, the empty sets and
\* counters, ignore.txt and active.txt read, profiles.txt opened; a
\* file that is missing ends the command there.
ScrapeRewardsStart ==
    /\ RewardsOnly
    /\ entry = "none"
    /\ entry' = "scrape_rewards"
    /\ r_owned0' = owned_games
    /\ r_files0' = [active |-> active_txt, ignore |-> ignore_txt,
                    profiles |-> profiles_txt]
    /\ owned_items' = owned_games
    /\ ignore_list' = ignore_txt
    /\ active_list' = IF OpenFails("ignore.txt") THEN {}
                      ELSE LoadActive(active_txt, owned_games, ignore_txt)
    /\ active_checked' = {}
    /\ profile_list' = {}
    /\ profile_checked' = {}
    /\ profile_checked_alt' = {}
    /\ valid_reward' = FALSE
    /\ scrape_count' = 0
    /\ r_phase' = 1
    /\ r_todo' = profiles_txt
    /\ r_pc' = IF \/ OpenFails("ignore.txt")
                  \/ OpenFails("active.txt")
                  \/ OpenFails("profiles.txt")
                 THEN "aborted" ELSE "phase"
    /\ r_call' = NoCall
    /\ r_refetched' = {}
    /\ UNCHANGED <<r_item, r_page, r_ccells, r_cells, ignore_txt, active_txt,
                   profiles_txt, collections_txt, r_detail, r_missing, r_passed,
                   owned_games>>

\* An entry of the loop over profiles.txt (1), over the old active list
\* (2), over the old profile list (4) or over the old ignore list (5):
\* the test on profile_checked and the call with alt = True.
PhaseItem ==
    /\ RewardsOnly
    /\ entry = "scrape_rewards"
    /\ r_pc = "phase"
    /\ r_phase \in {1, 2, 4, 5}
    /\ r_item = NoItem
    /\ \E u \in r_todo :
         LET target == IF r_phase = 2 THEN ProfileU(AuthorOf(u)) ELSE u IN
         /\ r_todo' = r_todo \ {u}
         /\ r_item' = IF r_phase \in {4, 5} THEN u ELSE NoItem
         /\ IF target \notin profile_checked
              THEN EnterProfile(target, TRUE)
              ELSE NoProfile
    /\ NoReward
    /\ UNCHANGED <<entry, r_phase, r_page, r_ccells, ignore_txt, active_txt,
                   profiles_txt, collections_txt, r_detail, r_missing, r_owned0, r_files0,
                   owned_items>>

\* The second test of loops 4 and 5, on profile_checked_alt, and the
\* call with alt = False.
PhaseItemSecond ==
    /\ RewardsOnly
    /\ entry = "scrape_rewards"
    /\ r_pc = "phase"
    /\ r_phase \in {4, 5}
    /\ r_item # NoItem
    /\ r_item' = NoItem
    /\ IF r_item \notin profile_checked_alt
         THEN EnterProfile(r_item, FALSE)
         ELSE NoProfile
    /\ NoReward
    /\ UNCHANGED <<entry, r_phase, r_todo, r_page, r_ccells, ignore_txt,
                   active_txt, profiles_txt, collections_txt, r_detail, r_missing,
                   r_owned0, r_files0, owned_items>>

\* Loop 3: the next line of collections.txt.
CollectionNext ==
    /\ RewardsOnly
    /\ entry = "scrape_rewards"
    /\ r_pc = "phase"
    /\ r_phase = 3
    /\ r_item = NoItem
    /\ \E c \in r_todo :
         /\ r_todo' = r_todo \ {c}
         /\ r_item' = c
    /\ r_page' = 1
    /\ NoReward
    /\ UNCHANGED <<entry, r_pc, r_phase, r_ccells, r_cells, ignore_txt,
                   active_txt, profiles_txt, collections_txt, r_detail, r_missing,
                   r_owned0, r_files0, owned_items, profile_list, profile_checked,
                   profile_checked_alt,
                   r_refetched>>

\* Loop 3: the next page of the feed. An exception or num_items == 0
\* ends the collection; else the creators of its cells are queued.
CollectionPage ==
    /\ RewardsOnly
    /\ entry = "scrape_rewards"
    /\ r_pc = "phase"
    /\ r_phase = 3
    /\ r_item # NoItem
    /\ r_ccells = <<>>
    /\ \/ /\ r_item' = NoItem
          /\ r_page' = 0
          /\ UNCHANGED r_ccells
       \/ /\ r_page <= MaxCells
          /\ \E cells \in SeqUpTo(Authors, MaxCells) : r_ccells' = cells
          /\ r_page' = r_page + 1
          /\ UNCHANGED r_item
    /\ NoReward
    /\ UNCHANGED <<entry, r_pc, r_phase, r_todo, r_cells, ignore_txt,
                   active_txt, profiles_txt, collections_txt, r_detail, r_missing,
                   r_owned0, r_files0, owned_items, profile_list, profile_checked,
                   profile_checked_alt,
                   r_refetched>>

\* Loop 3: one cell of the collection page.
CollectionCell ==
    /\ RewardsOnly
    /\ entry = "scrape_rewards"
    /\ r_pc = "phase"
    /\ r_phase = 3
    /\ r_ccells # <<>>
    /\ r_ccells' = Tail(r_ccells)
    /\ LET new_profile == ProfileU(Head(r_ccells)) IN
       IF new_profile \notin profile_checked
         THEN EnterProfile(new_profile, TRUE)
         ELSE NoProfile
    /\ NoReward
    /\ UNCHANGED <<entry, r_phase, r_todo, r_item, r_page, ignore_txt,
                   active_txt, profiles_txt, collections_txt, r_detail, r_missing,
                   r_owned0, r_files0, owned_items>>

\* One pass of the loop of _scrape_profile over a game cell.
ProfileCell ==
    /\ RewardsOnly
    /\ entry = "scrape_rewards"
    /\ r_pc = "cells"
    /\ ~CeilingReached(scrape_count)
    /\ r_cells # <<>>
    /\ LET game == Head(r_cells) IN
       /\ profile_list' = profile_list \cup {ProfileU(GameAuthor(game))}
       /\ IF SkipCandidate(game)
            THEN NoReward
            ELSE ClaimReward(game, owned_games)
    /\ r_cells' = Tail(r_cells)
    /\ UNCHANGED <<entry, r_pc, r_phase, r_todo, r_item, r_page, r_ccells,
                   profile_checked, profile_checked_alt, ignore_txt,
                   active_txt, profiles_txt, collections_txt, r_detail, r_missing,
                   r_owned0, r_files0, owned_items,
                   r_refetched>>

\* The loop of _scrape_profile ends: the ceiling is reached or no cell
\* is left.
ProfileReturn ==
    /\ RewardsOnly
    /\ entry = "scrape_rewards"
    /\ r_pc = "cells"
    /\ CeilingReached(scrape_count) \/ r_cells = <<>>
    /\ r_pc' = "phase"
    /\ r_cells' = <<>>
    /\ NoReward
    /\ UNCHANGED <<entry, r_phase, r_todo, r_item, r_page, r_ccells,
                   profile_list, profile_checked, profile_checked_alt,
                   ignore_txt, active_txt, profiles_txt, collections_txt,
                   r_detail, r_missing, r_owned0, r_files0, owned_items,
                   r_refetched>>

\* C26 mutant: the ignore list is gone over before the profile list.
PhaseSource_IgnoredFirst(phase) ==
    IF phase = 2 THEN {GameU(g) : g \in active_list}
    ELSE IF phase = 3 THEN collections_txt
    ELSE IF phase = 4 THEN {GameU(g) : g \in ignore_list}
    ELSE IF phase = 5 THEN profile_list
    ELSE {}

\* What the loops after the first go over: active_list_old, the lines
\* of collections.txt, profile_list_old, profile_list_ignore.
PhaseSource(phase) ==
    IF phase = 2 THEN {GameU(g) : g \in active_list}
    ELSE IF phase = 3 THEN collections_txt
    ELSE IF phase = 4 THEN profile_list
    ELSE IF phase = 5 THEN {GameU(g) : g \in ignore_list}
    ELSE {}

\* A loop of scrape_rewards has ended: the next one takes its snapshot;
\* after the fifth the files are written.
PhaseEnd ==
    /\ RewardsOnly
    /\ entry = "scrape_rewards"
    /\ r_pc = "phase"
    /\ r_item = NoItem
    /\ r_ccells = <<>>
    /\ r_todo = {}
    /\ r_phase' = r_phase + 1
    /\ r_todo' = PhaseSource(r_phase + 1)
    /\ r_pc' = IF r_phase = 5 THEN "write active"
               ELSE IF r_phase = 2 /\ OpenFails("collections.txt")
                 THEN "aborted"
               ELSE "phase"
    /\ NoReward
    /\ UNCHANGED <<entry, r_item, r_page, r_ccells, r_cells, profile_list,
                   profile_checked, profile_checked_alt, ignore_txt,
                   active_txt, profiles_txt, collections_txt, r_detail, r_missing,
                   r_owned0, r_files0, owned_items,
                   r_refetched>>

\* C19 mutant: profiles.txt is written before ignore.txt.
WriteThen_ProfilesSecond(pc) ==
    IF pc = "write active" THEN "write profiles"
    ELSE IF pc = "write profiles" THEN "write ignore"
    ELSE "done"

\* The three with blocks in their order: active.txt, ignore.txt,
\* profiles.txt, and the end of scrape_rewards.
WriteThen(pc) ==
    IF pc = "write active" THEN "write ignore"
    ELSE IF pc = "write ignore" THEN "write profiles"
    ELSE "done"

\* What a file can hold when the process dies at a with block: its old
\* lines (not yet opened), or, opened with 'w', the lines printed and
\* flushed so far: some of the new lines. The order of sorted() over
\* the URLs is not modelled, so any part of the new lines can be these.
CrashedWrite(old, new) == {old} \cup SUBSET new

\* with open('active.txt', 'w'): sorted(self.active_list)
WriteActive ==
    /\ RewardsOnly
    /\ entry = "scrape_rewards"
    /\ r_pc = "write active"
    /\ active_txt' = active_list
    /\ r_pc' = WriteThen(r_pc)
    /\ NoReward
    /\ UNCHANGED <<entry, r_phase, r_todo, r_item, r_page, r_ccells, r_cells,
                   profile_list, profile_checked, profile_checked_alt,
                   ignore_txt, profiles_txt, collections_txt, r_detail, r_missing,
                   r_owned0, r_files0, owned_items,
                   r_refetched>>

\* with open('ignore.txt', 'w'): sorted(self.ignore_list)
WriteIgnore ==
    /\ RewardsOnly
    /\ entry = "scrape_rewards"
    /\ r_pc = "write ignore"
    /\ ignore_txt' = ignore_list
    /\ r_pc' = WriteThen(r_pc)
    /\ NoReward
    /\ UNCHANGED <<entry, r_phase, r_todo, r_item, r_page, r_ccells, r_cells,
                   profile_list, profile_checked, profile_checked_alt,
                   active_txt, profiles_txt, collections_txt, r_detail, r_missing,
                   r_owned0, r_files0, owned_items,
                   r_refetched>>

\* with open('profiles.txt', 'w'): sorted(self.profile_list)
WriteProfiles ==
    /\ RewardsOnly
    /\ entry = "scrape_rewards"
    /\ r_pc = "write profiles"
    /\ profiles_txt' = profile_list
    /\ r_pc' = WriteThen(r_pc)
    /\ NoReward
    /\ UNCHANGED <<entry, r_phase, r_todo, r_item, r_page, r_ccells, r_cells,
                   profile_list, profile_checked, profile_checked_alt,
                   ignore_txt, active_txt, collections_txt, r_detail, r_missing,
                   r_owned0, r_files0, owned_items,
                   r_refetched>>

\* The process dies during scrape_rewards (killed, or an exception that
\* no handler catches): nothing more is done; a file whose with block
\* is being run may be partly written.
Crash ==
    /\ RewardsOnly
    /\ entry = "scrape_rewards"
    /\ r_pc \in {"phase", "cells", "write active", "write ignore",
                 "write profiles"}
    /\ r_pc' = "crashed"
    /\ active_txt' \in IF r_pc = "write active"
                         THEN CrashedWrite(active_txt, active_list)
                         ELSE {active_txt}
    /\ ignore_txt' \in IF r_pc = "write ignore"
                         THEN CrashedWrite(ignore_txt, ignore_list)
                         ELSE {ignore_txt}
    /\ profiles_txt' \in IF r_pc = "write profiles"
                           THEN CrashedWrite(profiles_txt, profile_list)
                           ELSE {profiles_txt}
    /\ NoReward
    /\ UNCHANGED <<entry, r_phase, r_todo, r_item, r_page, r_ccells, r_cells,
                   profile_list, profile_checked, profile_checked_alt,
                   collections_txt, r_detail, r_missing, r_owned0, r_files0,
                   owned_items, r_refetched>>

ScrapeNext ==
    \/ ScrapeRewardsStart
    \/ PhaseItem
    \/ PhaseItemSecond
    \/ CollectionNext
    \/ CollectionPage
    \/ CollectionCell
    \/ ProfileCell
    \/ ProfileReturn
    \/ PhaseEnd
    \/ WriteActive
    \/ WriteIgnore
    \/ WriteProfiles
    \/ Crash
    \/ ClaimUrl
    \/ ClaimRewardsStart
    \/ ClaimRewardsLine
    \/ ClaimRewardsEnd

(***************************************************************************)
(* 4.6 Report aggregator: make_report, _create_report, _sale_add           *)
(***************************************************************************)
Sales == 1..MaxSales
Dates == 1..MaxDate
\* item.start = None: the sale page was not read, or has no start date
NoDate == 0

\* A line with 'itch.io/s/' in it, and a game URL.
SaleLine(s) == [kind |-> "sale", id |-> s]
GameLine(g) == [kind |-> "game", id |-> g]

\* _sale_item(): id None (0), an empty list, start None.
NoGroup == [id |-> 0, list |-> <<>>, start |-> NoDate]

\* The three calls of _create_report for a segment: order, then check.
Reports == {"future", "miss", "sales"}
ReportOrder(report) == report = "future"
ReportCheck(report) == report \in {"future", "miss"}

\* C15 mutant: the comparison also stops at an equal start date.
RECURSIVE SaleAddIndex_NonStrict(_, _, _, _)
SaleAddIndex_NonStrict(list, item, order, idx) ==
    IF idx >= Len(list) THEN idx
    ELSE IF item.start = NoDate \/ list[idx + 1].start = NoDate THEN -1
    ELSE IF order /\ item.start <= list[idx + 1].start THEN idx
    ELSE IF ~order /\ item.start >= list[idx + 1].start THEN idx
    ELSE SaleAddIndex_NonStrict(list, item, order, idx + 1)

\* The while loop of _sale_add: the index at which it stops; -1 when a
\* comparison meets a start that is None (TypeError).
RECURSIVE SaleAddIndex(_, _, _, _)
SaleAddIndex(list, item, order, idx) ==
    IF idx >= Len(list) THEN idx
    ELSE IF item.start = NoDate \/ list[idx + 1].start = NoDate THEN -1
    ELSE IF order /\ item.start < list[idx + 1].start THEN idx
    ELSE IF ~order /\ item.start > list[idx + 1].start THEN idx
    ELSE SaleAddIndex(list, item, order, idx + 1)

\* list.insert(idx, item)
InsertAt(list, idx, item) ==
    SubSeq(list, 1, idx) \o <<item>> \o SubSeq(list, idx + 1, Len(list))

\* _sale_add(list, item, order)
SaleAdd(list, item, order) ==
    LET idx == SaleAddIndex(list, item, order, 0) IN
    IF idx = -1 THEN [raised |-> TRUE, list |-> list]
    ELSE [raised |-> FALSE, list |-> InsertAt(list, idx, item)]

\* Blocks of a log file as scrape_sales writes it: the sale URL, then
\* the members it logged for that sale.
RECURSIVE LogFiles(_)
LogFiles(n) ==
    IF n < 2 THEN {<<>>}
    ELSE LET shorter == LogFiles(n - 1) IN
         shorter
         \cup {f \o <<SaleLine(s), GameLine(g)>> :
                 f \in {h \in shorter : Len(h) <= n - 2},
                 s \in Sales, g \in Games}
         \cup {Append(f, GameLine(g)) :
                 f \in {h \in shorter : h # <<>> /\ Len(h) <= n - 1},
                 g \in Games}

ReportIdle ==
    /\ m_pc = "idle"
    /\ m_report = "none"
    /\ m_file = <<>>
    /\ m_lines = <<>>
    /\ m_sale_url = 0
    /\ m_item = NoGroup
    /\ m_list = <<>>
    /\ m_n = 0
    /\ m_clean = TRUE

\* _create_report up to its loop: a new item, no sale_url, the file read.
CreateReportStart ==
    /\ ReportOnly
    /\ m_pc = "idle"
    /\ m_report \in Reports
    /\ m_item' = NoGroup
    /\ m_sale_url' = 0
    /\ m_lines' = m_file
    /\ m_pc' = "lines"
    /\ UNCHANGED <<m_report, m_file, m_list, m_n, m_clean>>

\* The fetch of a sale page: an exception, a status other than 200, or
\* a page with its start_date (None when the page does not name one).
SalePageAnswers ==
    {[status |-> st, start |-> NoDate] : st \in {"raises", "not 200", "200"}}
    \cup {[status |-> "200", start |-> d] : d \in Dates}

\* A sale marker: the group that has an id is handed to _sale_add, a new
\* item is made and the sale page is fetched for its dates.
ReportSaleLine(line) ==
    LET added == IF m_item.id # 0
                   THEN SaleAdd(m_list, m_item, ReportOrder(m_report))
                   ELSE [raised |-> FALSE, list |-> m_list]
    IN
    /\ m_n' = IF m_item.id # 0 THEN m_n + 1 ELSE m_n
    /\ m_list' = added.list
    /\ IF added.raised
         THEN /\ m_pc' = "failed"
              /\ UNCHANGED <<m_item, m_sale_url, m_clean>>
         ELSE /\ m_sale_url' = line.id
              /\ \E page \in SalePageAnswers :
                   IF page.status = "raises"
                     THEN /\ m_pc' = "failed"
                          /\ m_item' = NoGroup
                          /\ m_clean' = FALSE
                     ELSE /\ m_pc' = "lines"
                          /\ m_item' = [NoGroup EXCEPT !.start = page.start]
                          /\ UNCHANGED m_clean

\* A member line: skipped when check holds and it is owned; else it is
\* fetched, and appended to the item unless the page is rejected. The
\* first member gives the item its id, read from sale_url.
ReportGameLine(line) ==
    /\ UNCHANGED <<m_list, m_n, m_sale_url>>
    /\ IF ReportCheck(m_report) /\ line.id \in owned_items
         THEN /\ m_clean' = FALSE
              /\ UNCHANGED <<m_item, m_pc>>
         ELSE \E page \in {"raises", "rejected", "valid"} :
                IF page = "raises" \/ (page = "valid" /\ m_item.id = 0
                                        /\ m_sale_url = 0)
                  THEN /\ m_pc' = "failed"
                       /\ m_clean' = FALSE
                       /\ UNCHANGED m_item
                ELSE IF page = "rejected"
                  THEN /\ m_clean' = FALSE
                       /\ UNCHANGED <<m_item, m_pc>>
                ELSE /\ m_item' = [m_item EXCEPT
                                     !.id = IF @ = 0 THEN m_sale_url ELSE @,
                                     !.list = Append(@, line.id)]
                     /\ UNCHANGED <<m_clean, m_pc>>

\* One pass of the loop over the lines of the file.
CreateReportLine ==
    /\ ReportOnly
    /\ m_pc = "lines"
    /\ m_lines # <<>>
    /\ m_lines' = Tail(m_lines)
    /\ IF Head(m_lines).kind = "sale"
         THEN ReportSaleLine(Head(m_lines))
         ELSE ReportGameLine(Head(m_lines))
    /\ UNCHANGED <<m_report, m_file>>

\* After the loop: the last group that has an id is handed to _sale_add.
CreateReportEnd ==
    /\ ReportOnly
    /\ m_pc = "lines"
    /\ m_lines = <<>>
    /\ LET added == IF m_item.id # 0
                      THEN SaleAdd(m_list, m_item, ReportOrder(m_report))
                      ELSE [raised |-> FALSE, list |-> m_list]
       IN /\ m_list' = added.list
          /\ m_pc' = IF added.raised THEN "failed" ELSE "done"
    /\ m_n' = IF m_item.id # 0 THEN m_n + 1 ELSE m_n
    /\ UNCHANGED <<m_report, m_file, m_lines, m_sale_url, m_item, m_clean>>

ReportNext ==
    \/ CreateReportStart
    \/ CreateReportLine
    \/ CreateReportEnd

\* _sale_add on its own: one more group, numbered in the order of the
\* calls, is inserted into the list of a report.
SaleAddCall ==
    /\ ReportOnly
    /\ m_pc = "adding"
    /\ m_n < MaxGroups
    /\ m_n' = m_n + 1
    /\ \E start \in Dates \cup {NoDate} :
         m_list' = SaleAdd(m_list,
                           [id |-> m_n + 1, list |-> <<>>, start |-> start],
                           ReportOrder(m_report)).list
    /\ UNCHANGED <<m_pc, m_report, m_file, m_lines, m_sale_url, m_item,
                   m_clean>>

SaleAddNext ==
    \/ SaleAddCall

InitFetch ==
    /\ FetchIdle
    /\ PriceIdle
    /\ ReportIdle
    /\ GameIdle
    /\ SalesIdle
    /\ RewardsIdle
    /\ owned_games = {}
    /\ owned_items = {}

\* The direct claim starts with whatever library the session holds.
InitGame ==
    /\ FetchIdle
    /\ PriceIdle
    /\ ReportIdle
    /\ GameIdle
    /\ SalesIdle
    /\ RewardsIdle
    /\ owned_games \in SUBSET Games
    /\ owned_items = {}

SpecGame == InitGame /\ [][GameNext]_vars

\* A segment of the sale-id space, a session library and a sale index.
InitSales ==
    /\ FetchIdle
    /\ PriceIdle
    /\ ReportIdle
    /\ GameIdle
    /\ RewardsIdle
    /\ s_pc = "idle"
    /\ s_run = 0
    /\ s_start \in 0..MaxCursor
    /\ scrape_limit = 0
    /\ scrape_step = 0
    /\ scrape_page = 0
    /\ page_count = 0
    /\ sales_list = <<>>
    /\ s_cache = <<>>
    /\ s_known \in SUBSET Games
    /\ s_cursors = <<>>
    /\ s_fetched = {}
    /\ miss_log = <<>>
    /\ future_log = <<>>
    /\ sales_log = <<>>
    /\ itch_miss_txt = <<>>
    /\ itch_future_txt = <<>>
    /\ itch_sales_txt = <<>>
    /\ s_files0 = LogFiles0
    /\ owned_games \in SUBSET Games
    /\ owned_items = {}

SpecSales == InitSales /\ [][SalesNext]_vars

\* The list files and the session library a command starts from.
InitRewards ==
    /\ FetchIdle
    /\ PriceIdle
    /\ ReportIdle
    /\ GameIdle
    /\ SalesIdle
    /\ RewardsStopped
    /\ ignore_txt = {}
    /\ active_txt \in SUBSET Games
    /\ profiles_txt = {}
    /\ collections_txt = {}
    /\ r_detail = TRUE
    /\ r_missing = {}
    /\ owned_games \in SUBSET Games
    /\ owned_items = {}

SpecRewards == InitRewards /\ [][RewardsNext]_vars

\* The list files and the session library scrape_rewards starts from.
InitScrape ==
    /\ FetchIdle
    /\ PriceIdle
    /\ ReportIdle
    /\ GameIdle
    /\ SalesIdle
    /\ RewardsStopped
    /\ r_missing \in SUBSET ListFiles
    /\ ignore_txt \in SUBSET Games
    /\ active_txt \in SUBSET Games
    /\ profiles_txt \in SUBSET {ProfileU(a) : a \in Authors}
    /\ collections_txt = IF OpenFails("collections.txt") THEN {}
                         ELSE {CollectionU(0)}
    /\ OpenFails("ignore.txt") => ignore_txt = {}
    /\ OpenFails("active.txt") => active_txt = {}
    /\ OpenFails("profiles.txt") => profiles_txt = {}
    /\ r_detail = FALSE
    /\ owned_games \in SUBSET Games
    /\ owned_items = {}

SpecScrape == InitScrape /\ [][ScrapeNext]_vars

SpecFetch == InitFetch /\ [][FetchNext]_vars

\* A log file of a segment, the report it is read for, and the
\* library of the session after _login.
InitReport ==
    /\ FetchIdle
    /\ PriceIdle
    /\ GameIdle
    /\ SalesIdle
    /\ RewardsIdle
    /\ owned_games \in SUBSET Games
    /\ owned_items = owned_games
    /\ m_pc = "idle"
    /\ m_report \in Reports
    /\ m_file \in LogFiles(MaxLines)
    /\ m_lines = <<>>
    /\ m_sale_url = 0
    /\ m_item = NoGroup
    /\ m_list = <<>>
    /\ m_n = 0
    /\ m_clean = TRUE

SpecReport == InitReport /\ [][ReportNext]_vars

\* An empty list of one of the reports.
InitSaleAdd ==
    /\ FetchIdle
    /\ PriceIdle
    /\ GameIdle
    /\ SalesIdle
    /\ RewardsIdle
    /\ owned_games = {}
    /\ owned_items = {}
    /\ m_pc = "adding"
    /\ m_report \in Reports
    /\ m_file = <<>>
    /\ m_lines = <<>>
    /\ m_sale_url = 0
    /\ m_item = NoGroup
    /\ m_list = <<>>
    /\ m_n = 0
    /\ m_clean = TRUE

SpecSaleAdd == InitSaleAdd /\ [][SaleAddNext]_vars

\* A price string of a tier.
InitPrice ==
    /\ FetchIdle
    /\ GameIdle
    /\ SalesIdle
    /\ RewardsIdle
    /\ owned_games = {}
    /\ owned_items = {}
    /\ t_price \in PriceStrings
    /\ t_class = "none"
    /\ ReportIdle

SpecPrice == InitPrice /\ [][PriceNext]_vars

(***************************************************************************)
(* Claims about the Fetcher (checked under SpecFetch).                     *)
(***************************************************************************)
Rep429(n) == [i \in 1..n |-> St(429)]

\* n rounds of (25 ms sleep, request, 50 ms sleep), then one of (25 ms
\* sleep, request).
ExpectedLog(n) ==
    [i \in 1..(3 * n + 2) |->
        IF i > 3 * n
          THEN (IF i = 3 * n + 1 THEN Sleep(PreDelayMs) ELSE Request)
          ELSE IF i % 3 = 1 THEN Sleep(PreDelayMs)
          ELSE IF i % 3 = 2 THEN Request
          ELSE Sleep(RetryDelayMs)]

RequestsIn(log) == Cardinality({i \in 1..Len(log) : log[i] = Request})

\* C4: when the server answers n times 429 and then 200, _send_web has
\* made n + 1 attempts (n retries), each preceded by the 25 ms sleep and
\* each 429 followed by the 50 ms sleep, and has returned the 200.
C4_Retry429ThenReturn ==
    \A n \in 0..MaxAttempts :
        f_seen = Rep429(n) \o <<St(200)>> =>
            /\ f_pc = "returned"
            /\ f_r = [bound |-> TRUE, code |-> 200]
            /\ f_attempts = n + 1
            /\ RequestsIn(f_log) - 1 = n
            /\ f_log = ExpectedLog(n)

C4_Witness ==
    /\ f_seen = <<St(429), St(429), St(200)>>
    /\ f_pc = "returned"

\* C5 (as claimed): a transport-level failure of any attempt, the first
\* included, is retried and not raised to the caller: after an attempt
\* that met the failure, _send_web is still in its loop.
C5_TransportFailureRetried ==
    (f_seen # <<>> /\ f_seen[Len(f_seen)] = TransportError) => f_pc = "loop"

IsTerminalStatus(code) == code \in {200, 301, 404} \/ code >= 500

\* C6: an attempt that receives 200, 301, 404 or a status >= 500 is the
\* last one: _send_web has returned that response, with no attempt and no
\* sleep after it.
C6_TerminalStatusReturns ==
    \A i \in 1..Len(f_seen) :
        (f_seen[i].kind = "status" /\ IsTerminalStatus(f_seen[i].code)) =>
            /\ i = Len(f_seen)
            /\ f_attempts = i
            /\ f_pc = "returned"
            /\ f_r = [bound |-> TRUE, code |-> f_seen[i].code]
            /\ f_log[Len(f_log)] = Request
            /\ RequestsIn(f_log) = i

C6_Witness ==
    /\ f_pc = "returned"
    /\ Len(f_seen) = 2
    /\ f_seen[2] = St(503)

(***************************************************************************)
(* Claims about the direct claim (checked under SpecGame).                 *)
(***************************************************************************)
\* C8 (as claimed): when the claim-form POST ends on a URL other than
\* the platform root the call reports success and the game is in the
\* owned-games collection; when it ends on the root the call reports the
\* expired promotion if the body has the marker, a generic failure if not.
C8_DirectClaimOutcome ==
    (g_pc = "feed" /\ g_post.got) =>
        /\ ~g_post.root =>
              (g_report = "success" /\ g_game \in owned_games)
        /\ (g_post.root /\ g_post.marker) =>
              g_report = "error: promotion is no longer active"
        /\ (g_post.root /\ ~g_post.marker) =>
              g_report = "error: response body"

\* C13 (as claimed): a second claim pass submits no claim for a game
\* that the first pass claimed successfully: no such game is passed to
\* _claim_game again.
C13_SecondPassClaimsNothingAgain ==
    (g_run = 2 /\ g_pc \in {"download_url", "download_page", "claim_post"}) =>
      g_game \notin g_granted

(***************************************************************************)
(* Claims about the sale crawler (checked under SpecSales).                *)
(***************************************************************************)
\* The run was started with cursor N = s_start and limit N + k, with
\* 0 <= k <= step.
RangeWithinStep ==
    /\ scrape_limit >= s_start
    /\ scrape_limit - s_start <= scrape_step

C1_IgnoreActiveDisjoint ==
    entry = "scrape_rewards" =>
      /\ ignore_list \cap active_list = {}
      /\ r_pc = "done" =>
           /\ ignore_txt = ignore_list
           /\ active_txt = active_list
           /\ ignore_txt \cap active_txt = {}

C1_Witness ==
    /\ entry = "scrape_rewards"
    /\ r_pc = "done"
    /\ ignore_txt # {}
    /\ active_txt # {}
    /\ Len(r_passed) > 0

\* The URLs the session owns when a command starts: owned_items where
\* _login built it, the URLs of user.owned_games where it did not run.
OwnedAtEntry == IF entry = "claim_url" THEN r_owned0 ELSE owned_items

\* C2 as stated: no entry point (scrape_rewards through _scrape_profile,
\* claim_rewards, claim_url) passes an owned game to _claim_reward.
C2_NoOwnedGamePassed ==
    r_call.game # 0 => r_call.game \notin OwnedAtEntry

\* C2 amended: scrape_rewards (through _scrape_profile) and
\* claim_rewards never pass a game of owned_items to _claim_reward;
\* claim_url makes no such test.
C2_NoOwnedGamePassedByCrawl ==
    entry \in {"scrape_rewards", "claim_rewards"} =>
      /\ r_call.game # 0 => r_call.game \notin owned_items
      /\ \A k \in 1..Len(r_passed) : r_passed[k] \notin owned_items

C2_Witness ==
    /\ entry = "scrape_rewards"
    /\ owned_items # {}
    /\ r_call.game # 0

\* C7: a claim POST that was answered succeeds iff its final URL is not
\* the platform root; on success the game is in user.owned_games, and
\* when the call returns it is in active_list and active_checked and
\* not in ignore_list.
C7_ClaimSuccess ==
    (r_call.game # 0 /\ r_call.final_url # "none") =>
      /\ r_call.claimed <=> r_call.final_url # Root
      /\ r_call.claimed =>
           /\ r_call.game \in owned_games
           /\ r_call.returned =>
                /\ r_call.game \in active_list
                /\ r_call.game \in active_checked
                /\ r_call.game \notin ignore_list

C7_Witness ==
    /\ entry = "scrape_rewards"
    /\ r_call.game # 0
    /\ r_call.claimed
    /\ r_call.returned
    /\ r_call.game \notin r_owned0

NoDuplicates(seq) ==
    \A i, j \in 1..Len(seq) : seq[i] = seq[j] => i = j

\* C9 as stated: a failed evaluation leaves the game in ignore_list and
\* not in active_list, and the game is not evaluated again in the run.
C9_FailureIgnored ==
    /\ (r_call.game # 0 /\ r_call.returned /\ r_call.raised) =>
         /\ r_call.game \in ignore_list
         /\ r_call.game \notin active_list
    /\ NoDuplicates(r_passed)

\* C9 amended: a failed evaluation leaves the game in ignore_list only
\* when no free tier had been found before the failure; after a free
\* tier was found the game is left in active_list and active_checked.
\* Either way it is in one list only and is not evaluated again in the
\* run.
C9_FailureClassified ==
    /\ (r_call.game # 0 /\ r_call.returned /\ r_call.raised) =>
         IF valid_reward
           THEN /\ r_call.game \in active_list
                /\ r_call.game \in active_checked
                /\ r_call.game \notin ignore_list
           ELSE /\ r_call.game \in ignore_list
                /\ r_call.game \notin active_list
    /\ NoDuplicates(r_passed)

C9_Witness ==
    /\ entry = "scrape_rewards"
    /\ Len(r_passed) >= 2
    /\ r_call.game # 0
    /\ r_call.returned
    /\ r_call.raised
    /\ valid_reward

\* The tiers up to i have a price with a digit in it.
WellFormedUpTo(tiers, i) ==
    \A j \in 1..i : FirstDigit(tiers[j].price, 1) # 0

\* Tier i of the call is a free tier that is not available, and the
\* call claimed nothing.
UnavailableFreeTier(i) ==
    /\ WellFormedUpTo(r_call.dat.tiers, i)
    /\ IsFreeTier(r_call.dat.tiers[i].price)
    /\ r_call.dat.tiers[i].available = FALSE
    /\ ~r_call.claimed

RECURSIVE AfterNonDigits(_)
AfterNonDigits(s) ==
    IF s = <<>> THEN <<>>
    ELSE IF Head(s) \in Digits THEN s
    ELSE AfterNonDigits(Tail(s))

\* The price is 0.00 behind its currency prefix.
FreePrice(s) == AfterNonDigits(s) = <<"0", ".", "0", "0">>

\* data.json has no rewards section, or one without a free tier.
NoFreeTier(dat) ==
    \/ dat.kind = "no rewards"
    \/ /\ dat.kind = "rewards"
       /\ \A i \in 1..Len(dat.tiers) : ~FreePrice(dat.tiers[i].price)

\* C11: when data.json has no rewards section, or no tier of it has a
\* free price, _claim_reward ends with the game in ignore_list and not in
\* active_list or active_checked, and it has sent no download_url request
\* and no claim POST.
C11_NoFreeTierIgnored ==
    (r_call.game # 0 /\ r_call.returned /\ NoFreeTier(r_call.dat)) =>
      /\ r_call.game \in ignore_list
      /\ r_call.game \notin active_list
      /\ r_call.game \notin active_checked
      /\ r_call.reqs = <<>>
      /\ ~r_call.claimed

C11_Witness ==
    /\ r_call.game # 0
    /\ r_call.returned
    /\ r_call.dat.kind = "rewards"
    /\ Len(r_call.dat.tiers) = 2
    /\ r_call.dat.tiers[1].available
    /\ NoFreeTier(r_call.dat)
    /\ r_call.game \in ignore_list

PriceEuro000 == <<"EUR", "0", ".", "0", "0">>
Price000 == <<"0", ".", "0", "0">>
Price099 == <<"0", ".", "9", "9">>

\* C12: the price test classifies a price as free iff what remains of
\* the string after its leading non-digit characters is 0.00; $0.00,
\* EUR0.00 and 0.00 are free, 5.00 and 0.99 are not.
C12_FreeIffZeroAfterPrefix ==
    t_class # "none" =>
      /\ t_class = "free" <=> FreePrice(t_price)
      /\ t_price \in {PriceDollarFree, PriceEuro000, Price000} =>
           t_class = "free"
      /\ t_price \in {PriceFive, Price099} => t_class = "not free"

C12_Witness ==
    /\ t_price = PriceEuro000
    /\ t_class = "free"

(***************************************************************************)
(* Claims about the report aggregator.                                     *)
(***************************************************************************)
\* The groups a log file stands for: each member belongs to the nearest
\* sale marker before it, in file order; a marker without members gives
\* no group.
RECURSIVE ExpectedGroups(_, _, _)
ExpectedGroups(lines, cur, acc) ==
    LET closed == IF cur.list # <<>> THEN acc \cup {cur} ELSE acc IN
    IF lines = <<>> THEN closed
    ELSE IF Head(lines).kind = "sale"
      THEN ExpectedGroups(Tail(lines),
                          [id |-> Head(lines).id, list |-> <<>>], closed)
    ELSE ExpectedGroups(Tail(lines),
                        [cur EXCEPT !.list = Append(@, Head(lines).id)], acc)

\* The groups of an output list, by sale and members.
GroupsIn(list) ==
    {[id |-> list[i].id, list |-> list[i].list] : i \in 1..Len(list)}

\* C14 (as claimed): when every member of the log file passes
\* validation, _create_report leaves one group per sale marker that has
\* members, each member in the group of the nearest marker before it.
C14_GroupsFollowMarkers ==
    (m_pc \in {"done", "failed"} /\ m_clean) =>
      GroupsIn(m_list) = ExpectedGroups(m_file, [id |-> 0, list |-> <<>>], {})

\* C15: after any sequence of _sale_add calls the list is ordered by
\* start date, ascending for the future report and descending for the
\* miss report, and a group is behind the groups of the same start date
\* that were inserted before it. (A group without a start date is in
\* the list only as its single element.)
C15_SortedStable ==
    m_pc = "adding" =>
      /\ \A i, j \in 1..Len(m_list) :
           i < j =>
             /\ m_report = "future" => m_list[i].start <= m_list[j].start
             /\ m_report = "miss" => m_list[i].start >= m_list[j].start
             /\ m_list[i].start = m_list[j].start =>
                  m_list[i].id < m_list[j].id
      /\ (\E i \in 1..Len(m_list) : m_list[i].start = NoDate) =>
           Len(m_list) = 1

C15_Witness ==
    /\ m_pc = "adding"
    /\ m_report = "miss"
    /\ Len(m_list) = 4
    /\ m_list[1].start > m_list[2].start
    /\ m_list[2].start = m_list[3].start
    /\ m_list[1].id = 4

(***************************************************************************)
(* Claims about the profile crawler of scrape_rewards.                     *)
(***************************************************************************)
\* C16 (as claimed): within one scrape_rewards run no profile page is
\* requested twice in the same addressing form.
C16_EachFormFetchedOnce ==
    entry = "scrape_rewards" => r_refetched = {}

\* The games claimed by user.claim_game since _login of this run.
ClaimedThisRun == owned_games \ owned_items

\* C17: a sale member whose immediate claim succeeded is not in the miss
\* log: a game claimed during the run of scrape_sales never appears as a
\* game entry of miss_log.
C17_ClaimedMemberNotMissed ==
    s_pc \in {"loop", "done"} =>
        \A g \in ClaimedThisRun :
            \A i \in 1..Len(miss_log) : miss_log[i] # LogGame(g)

FilesOnDisk == <<active_txt, ignore_txt, profiles_txt>>
FilesAtStart == <<r_files0.active, r_files0.ignore, r_files0.profiles>>
FilesAtEnd == <<active_list, ignore_list, profile_list>>

\* C19 as stated: the three files are rewritten atomically: when
\* scrape_rewards has crashed, they all hold the start-of-run snapshot
\* or all hold the end-of-run sets.
C19_AllOrNothing ==
    r_pc = "crashed" =>
        \/ FilesOnDisk = FilesAtStart
        \/ FilesOnDisk = FilesAtEnd

\* C19: the three files are rewritten one after the other, active.txt,
\* ignore.txt, profiles.txt: when scrape_rewards has crashed, the first
\* k of them hold the end-of-run sets, the file after these holds its
\* snapshot or a part of its end-of-run set, and the later ones hold
\* the snapshot; a run that ended has rewritten all three.
C19_WrittenInOrder ==
    /\ r_pc = "crashed" =>
         \E k \in 0..3 :
           /\ \A i \in 1..k : FilesOnDisk[i] = FilesAtEnd[i]
           /\ k < 3 => FilesOnDisk[k + 1]
                          \in CrashedWrite(FilesAtStart[k + 1],
                                           FilesAtEnd[k + 1])
           /\ \A i \in (k + 2)..3 : FilesOnDisk[i] = FilesAtStart[i]
    /\ (entry = "scrape_rewards" /\ r_pc = "done") =>
         FilesOnDisk = FilesAtEnd

\* A crash after active.txt was rewritten and before ignore.txt was:
\* one file holds a new set, another one its old lines, which differ
\* from what the run would have written.
C19_Witness ==
    /\ r_pc = "crashed"
    /\ active_txt = active_list
    /\ active_txt # r_files0.active
    /\ ignore_txt = r_files0.ignore
    /\ ignore_txt # ignore_list

\* C20: per-item isolation: a failure while one sale is evaluated ends
\* that sale's evaluation only: scrape_sales is never aborted by it, so
\* the run goes on to its end, where the output files are written.
C20_SaleFailureIsolated == s_pc # "aborted"

\* C21: one top-level _claim_game call sends the download-url request at
\* most twice: the first one and one retry after the redirect was
\* resolved.
C21_AtMostTwoDownloadUrl == g_dl_posts <= 2

\* C22: a run of scrape_rewards with a list file missing is stopped by
\* the error: with ignore.txt, active.txt or profiles.txt missing it
\* ends before its first loop, with collections.txt missing it ends
\* before its third loop; and the run rewrites none of active.txt,
\* ignore.txt and profiles.txt.
C22_MissingFileStopsRun ==
    (entry = "scrape_rewards" /\ r_missing # {}) =>
        /\ FilesOnDisk = FilesAtStart
        /\ r_pc \notin {"write active", "write ignore", "write profiles",
                        "done"}
        /\ r_missing # {"collections.txt"} => r_pc = "aborted"
        /\ r_phase >= 3 => r_pc = "aborted"

\* collections.txt is missing: the run was stopped there, after games
\* had been evaluated by its first two loops.
C22_Witness ==
    /\ entry = "scrape_rewards"
    /\ r_missing = {"collections.txt"}
    /\ r_pc = "aborted"
    /\ r_passed # <<>>
    /\ FilesOnDisk = FilesAtStart

\* C23: every iteration of the scan loop of scrape_sales advances the
\* cursor by one id and counts one processed id, also when the sale is
\* skipped and when resolving or fetching that id fails.
C23_EveryIterationAdvances ==
    [][SalesIter => /\ scrape_page' = scrape_page + 1
                    /\ page_count' = page_count + 1]_vars

\* C24: the cache of resolved sale URLs is index-aligned to the sale id:
\* when an iteration of scrape_sales takes a cached entry for the sale
\* id at the cursor, that entry is the URL recorded for this id.
C24_CacheAlignedToId ==
    [][(SalesIter /\ page_count < Len(sales_list)) =>
           sales_list[page_count + 1] = SaleUrl(scrape_page)]_vars

\* The same for the segments that do not start at id 0.
C24_AlignedFromNonZeroStart ==
    [][(SalesIter /\ page_count < Len(sales_list) /\ s_start # 0) =>
           sales_list[page_count + 1] = SaleUrl(scrape_page)]_vars

C26_SourcesInOrder ==
    [][(entry' = "scrape_rewards") =>
         /\ entry = "none" => (r_phase' = 1 /\ r_todo' = profiles_txt)
         /\ entry = "scrape_rewards" =>
              /\ r_phase' \in {r_phase, r_phase + 1}
              /\ r_phase' = r_phase + 1 =>
                   /\ r_todo = {} /\ r_item = NoItem /\ r_ccells = <<>>
                   /\ r_pc = "phase"
                   /\ r_phase = 1 => r_todo' = {GameU(g) : g \in active_list}
                   /\ r_phase = 2 => r_todo' = collections_txt
                   /\ r_phase = 3 => r_todo' = profile_list
                   /\ r_phase = 4 => r_todo' = {GameU(g) : g \in ignore_list}
              /\ r_phase \in 1..3 => profile_checked' = profile_checked
              /\ profile_checked' # profile_checked =>
                   (r_phase \in {4, 5} /\ r_item # NoItem)]_vars

\* The last loop is at an ignored entry, between its two forms, after
\* the loop over the profile list has fetched a profile in both forms.
C26_Witness ==
    /\ entry = "scrape_rewards"
    /\ r_phase = 5
    /\ r_item # NoItem
    /\ r_item.kind = "game"
    /\ \E u \in profile_checked :
         u.kind = "profile" /\ AltU(u.id) \in profile_checked_alt

\* The positions of the sale URLs in a log.
HeadersOf(log) == {i \in 1..Len(log) : log[i].kind = "sale"}

\* C27: in each of the mismatch, future and miss logs a sale's URL is
\* recorded once per sale, every recorded sale URL is followed by a
\* member URL, and every member URL comes after a sale URL.
C27_SaleRecordedOnce ==
    \A log \in {sales_log, future_log, miss_log} :
        /\ \A i, j \in HeadersOf(log) : log[i] = log[j] => i = j
        /\ \A i \in HeadersOf(log) :
             i < Len(log) /\ log[i + 1].kind = "game"
        /\ log # <<>> => log[1].kind = "sale"

\* What one scan of a sale page adds to a log: nothing, or the URL of
\* the scanned sale followed by member URLs only.
ScanBlock(log, new_log, sale_url) ==
    \E new \in {SubSeq(new_log, Len(log) + 1, Len(new_log))} :
        /\ new_log = log \o new
        /\ new # <<>> =>
             /\ new[1] = LogSale(sale_url)
             /\ Len(new) >= 2
             /\ \A i \in 2..Len(new) : new[i].kind = "game"

\* The same per scan of a sale page: each iteration of scrape_sales
\* adds to each log nothing or one block for the sale it scanned.
C27_OneBlockPerScan ==
    [][(SalesIter /\ scrape_page' = scrape_page + 1) =>
         LET sale_url == IF page_count < Len(sales_list)
                           THEN sales_list[page_count + 1]
                           ELSE SaleUrl(scrape_page)
         IN  /\ ScanBlock(sales_log, sales_log', sale_url)
             /\ ScanBlock(future_log, future_log', sale_url)
             /\ ScanBlock(miss_log, miss_log', sale_url)]_vars

\* The claim-form POSTs among the requests of a _claim_reward call.
ClaimPostsIn(reqs) == {i \in 1..Len(reqs) : reqs[i].req = "claim"}

\* The tiers of a rewards section that are free and available.
ClaimableTiers(tiers) ==
    {i \in 1..Len(tiers) : /\ FirstDigit(tiers[i].price, 1) # 0
                           /\ IsFreeTier(tiers[i].price)
                           /\ tiers[i].available = TRUE}

\* C28: one invocation of _claim_reward submits at most one claim form,
\* whatever the number of free and available tiers of the game; a claim
\* form is the last request of the invocation.
C28_AtMostOneClaimPost ==
    r_call # NoCall =>
        /\ Cardinality(ClaimPostsIn(r_call.reqs)) <= 1
        /\ \A i \in ClaimPostsIn(r_call.reqs) : i = Len(r_call.reqs)

\* A call for a game with two free and available tiers has claimed the
\* game with one claim form.
C28_Witness ==
    /\ r_call # NoCall
    /\ r_call.claimed
    /\ r_call.dat.kind = "rewards"
    /\ Cardinality(ClaimableTiers(r_call.dat.tiers)) = 2
    /\ Cardinality(ClaimPostsIn(r_call.reqs)) = 1

\* C29: every response that _send_web returns has a status in
\* {200, 301, 404} or >= 500, and it is the response of the last
\* attempt; after an attempt that got any other status the call is
\* still in its loop, so a server that answers with such statuses only
\* never gets the call to return.
C29_OnlyTerminalStatusReturned ==
    /\ f_pc = "returned" =>
         /\ f_r.bound
         /\ f_r.code \in {200, 301, 404} \/ f_r.code >= 500
         /\ f_seen[Len(f_seen)] = St(f_r.code)
    /\ (/\ f_seen # <<>>
        /\ f_seen[Len(f_seen)].kind = "status"
        /\ f_seen[Len(f_seen)].code \notin {200, 301, 404}
        /\ f_seen[Len(f_seen)].code < 500) => f_pc = "loop"

\* Three attempts got 302, 403 and 429: the call is in its loop.
C29_Witness ==
    /\ f_seen = <<St(302), St(403), St(429)>>
    /\ f_pc = "loop"

\* C30: in a scrape_rewards or claim_rewards run a _claim_reward call
\* for a game that is in neither ignore_list nor active_list ends with
\* the game in exactly one of the two, whatever the outcome; no step of
\* the run removes a URL from ignore_list, active_list or profile_list;
\* and active_checked is a subset of active_list.
C30_ExactlyOneListNoRemoval ==
    /\ [](HasLists => active_checked \subseteq active_list)
    /\ [][(HasLists /\ entry' = entry) =>
            /\ ignore_list \subseteq ignore_list'
            /\ active_list \subseteq active_list'
            /\ profile_list \subseteq profile_list'
            /\ r_passed' # r_passed =>
                 LET game == r_passed'[Len(r_passed')] IN
                 game \notin ignore_list \cup active_list =>
                   /\ game \in ignore_list' \cup active_list'
                   /\ game \notin ignore_list' \cap active_list']_vars

\* A call that an exception ended after a free tier was found: the
\* game is in the active list only, next to a game ignored earlier.
C30_Witness ==
    /\ HasLists
    /\ r_call # NoCall
    /\ r_call.raised
    /\ r_call.game \in active_list \ ignore_list
    /\ ignore_list \ ignore_txt # {}
    /\ Len(r_passed) >= 2

====
